---- MODULE Spec2Model ----
(***************************************************************************)
(* Model of GraphService (link graph over a vault of markdown notes):      *)
(* link extraction, target resolution, graph construction with the         *)
(* concurrent per-note units, and the query operations built on it.        *)
(*                                                                         *)
(* Strings are sequences of one-character strings, so that endsWith,       *)
(* toLowerCase, basename and concatenation are computed on characters.     *)
(* An optional value (alias?, label?, string | null) is a set with zero or *)
(* one element.                                                            *)
(***************************************************************************)
EXTENDS Integers, Sequences, FiniteSets, TLC

VARIABLES
    root,        \* directory listing of the vault: what readdir returns, in its order
    contents,    \* file contents by relative path: what readFile returns
    pathFilter,  \* this.pathFilter: the directories whose contents it rejects
    pc,          \* position of the running operation
    call,        \* the operation running and its arguments
    notes,       \* getGraph: const notes = await this.getAllNotes()
    nodeMap,     \* getGraph: nodeMap, by note path
    results,     \* getGraph: what each processPromises[i] resolved to, if it has
    failed,      \* indices of the notes whose readFile rejected
    overtaken,   \* whether some unit completed before a unit of an earlier note
    graph,       \* the value getGraph returned
    unresolvedLinks, \* getGraphStats: unresolvedLinks
    notes2,      \* getGraphStats: the second getAllNotes()
    scan,        \* getGraphStats: how many notes of notes2 the re-scan has read
    seen,        \* the vault states that existed while the operation ran
    edits,       \* number of changes made to the vault while the operation ran
    ret          \* the value the operation returned

vars == <<root, contents, pathFilter, pc, call, notes, nodeMap, results, failed,
          overtaken, graph, unresolvedLinks, notes2, scan, seen, edits, ret>>

-----------------------------------------------------------------------------
(* Bounds *)

\* notes in a vault
MaxNotes == 3
\* largest depth passed to getLocalGraph
MaxDepth == 2
\* notes in a vault that changes while getGraphStats runs
MaxStatsNotes == 2
\* changes to the vault while getGraphStats runs
MaxEdits == 1

-----------------------------------------------------------------------------
(* Strings *)

MD == <<".", "m", "d">>
MARKDOWN == <<".", "m", "a", "r", "k", "d", "o", "w", "n">>
SLASH == <<"/">>

endsWith(s, suffix) ==
    /\ Len(s) >= Len(suffix)
    /\ SubSeq(s, Len(s) - Len(suffix) + 1, Len(s)) = suffix

startsWith(s, prefix) ==
    /\ Len(s) >= Len(prefix)
    /\ SubSeq(s, 1, Len(prefix)) = prefix

lowerChar(c) ==
    CASE c = "A" -> "a"
      [] c = "X" -> "x"
      [] c = "Y" -> "y"
      [] OTHER -> c

toLowerCase(s) == [i \in 1..Len(s) |-> lowerChar(s[i])]

\* String.prototype.trim, for the one whitespace character of the alphabet
trim(s) ==
    LET keep == {i \in 1..Len(s) : s[i] # " "}
    IN  IF keep = {} THEN <<>>
        ELSE LET lo == CHOOSE i \in keep : \A j \in keep : i <= j
                 hi == CHOOSE i \in keep : \A j \in keep : i >= j
             IN  SubSeq(s, lo, hi)

lastIndexOf(s, c) ==
    LET at == {i \in 1..Len(s) : s[i] = c}
    IN  IF at = {} THEN 0 ELSE CHOOSE i \in at : \A j \in at : i >= j

\* path.basename(p) of a path that does not end in a separator
basename(p) == SubSeq(p, lastIndexOf(p, "/") + 1, Len(p))

\* path.basename(p, '.md')
basenameMd(p) ==
    LET base == basename(p)
    IN  IF endsWith(base, MD) /\ Len(base) > Len(MD)
        THEN SubSeq(base, 1, Len(base) - Len(MD))
        ELSE base

\* notePath.includes('/') ? notePath.substring(0, notePath.lastIndexOf('/')) : ''
sourceDirOf(notePath) == SubSeq(notePath, 1, lastIndexOf(notePath, "/") - 1)

\* x.endsWith('.md') ? x : `${x}.md`
normalize(x) == IF endsWith(x, MD) THEN x ELSE x \o MD

\* JavaScript truthiness of an optional string
truthy(opt) == opt # {} /\ opt # {<<>>}

-----------------------------------------------------------------------------
(* Link extraction.  A document is a sequence of pieces of markup: a       *)
(* wikilink [[target#heading|alias]], an inline link [alias](target#h), or *)
(* other text.                                                             *)

isWikilink(tok) == tok.kind = "wiki" /\ tok.target # <<>>

\* [^)]+\.md : at least one character, then the extension
isMarkdownLink(tok) ==
    tok.kind = "md" /\ endsWith(tok.target, MD) /\ Len(tok.target) > Len(MD)

optTrim(opt) == {trim(a) : a \in opt}

fromWikilink(tok) ==
    LET alias == optTrim(tok.alias)
    IN  [target |-> normalize(trim(tok.target)),
         alias  |-> IF truthy(alias) THEN alias ELSE {}]

fromMarkdownLink(tok) ==
    LET alias == optTrim(tok.alias)
        t     == trim(tok.target)
    IN  [target |-> IF startsWith(t, <<".", "/">>) THEN SubSeq(t, 3, Len(t)) ELSE t,
         alias  |-> IF truthy(alias) THEN alias ELSE {}]

RECURSIVE mapSeq(_, _)
mapSeq(s, kind) ==
    IF s = <<>> THEN <<>>
    ELSE <<IF kind = "wiki" THEN fromWikilink(Head(s)) ELSE fromMarkdownLink(Head(s))>>
         \o mapSeq(Tail(s), kind)

extractLinks(content) ==
    mapSeq(SelectSeq(content, isWikilink), "wiki")
    \o mapSeq(SelectSeq(content, isMarkdownLink), "md")

-----------------------------------------------------------------------------
(* Directory walk *)

\* PathFilter.isAllowed: rejects what lies inside an ignored directory
isAllowed(relativePath, filter) ==
    \A d \in filter : ~ startsWith(relativePath, d \o SLASH)

isNoteName(name) == endsWith(name, MD) \/ endsWith(name, MARKDOWN)

RECURSIVE scanDirectory(_, _, _)
scanDirectory(entries, relativePath, filter) ==
    IF entries = <<>> THEN <<>>
    ELSE LET entry == Head(entries)
             entryRelativePath ==
                 IF relativePath # <<>> THEN relativePath \o SLASH \o entry.name
                 ELSE entry.name
             here ==
                 IF ~ isAllowed(entryRelativePath, filter) THEN <<>>
                 ELSE IF entry.isDirectory
                      THEN IF ~ isAllowed(entryRelativePath \o SLASH \o <<"t", "e", "s", "t">> \o MD,
                                          filter)
                           THEN <<>>
                           ELSE scanDirectory(entry.entries, entryRelativePath, filter)
                      ELSE IF isNoteName(entry.name)
                           THEN <<entryRelativePath>>
                           ELSE <<>>
         IN  here \o scanDirectory(Tail(entries), relativePath, filter)

getAllNotes(listing, filter) == scanDirectory(listing, <<>>, filter)

-----------------------------------------------------------------------------
(* Target resolution *)

\* the note the for..of loop returns: the first one that passes either test
firstLoose(normalizedTarget, allNotes) ==
    LET lowerTarget == toLowerCase(normalizedTarget)
        hit(note) ==
            \/ toLowerCase(note) = lowerTarget
            \/ toLowerCase(basename(note)) = toLowerCase(basename(normalizedTarget))
        hits == {i \in 1..Len(allNotes) : hit(allNotes[i])}
    IN  IF hits = {} THEN {}
        ELSE {allNotes[CHOOSE i \in hits : \A j \in hits : i <= j]}

inSet(x, allNotes) == \E i \in 1..Len(allNotes) : allNotes[i] = x

resolveLinkNoSourceDir(target, allNotes, sourceDir) ==
    LET normalizedTarget == normalize(target)
    IN  IF inSet(normalizedTarget, allNotes) THEN {normalizedTarget}
        ELSE firstLoose(normalizedTarget, allNotes)

resolveLinkDangling(target, allNotes, sourceDir) ==
    LET normalizedTarget == normalize(target)
        withDir == sourceDir \o SLASH \o normalizedTarget
    IN  IF inSet(normalizedTarget, allNotes) THEN {normalizedTarget}
        ELSE IF sourceDir # <<>> /\ inSet(withDir, allNotes) THEN {withDir}
        ELSE IF firstLoose(normalizedTarget, allNotes) # {}
             THEN firstLoose(normalizedTarget, allNotes)
             ELSE {normalizedTarget}

\* allNotes is the Set in its iteration (insertion) order
resolveLink(target, allNotes, sourceDir) ==
    LET normalizedTarget == normalize(target)
        withDir == sourceDir \o SLASH \o normalizedTarget
    IN  IF inSet(normalizedTarget, allNotes) THEN {normalizedTarget}
        ELSE IF sourceDir # <<>> /\ inSet(withDir, allNotes) THEN {withDir}
        ELSE firstLoose(normalizedTarget, allNotes)

-----------------------------------------------------------------------------
(* Graph construction *)

newNode(notePath) ==
    [id |-> notePath, label |-> basenameMd(notePath),
     links |-> 0, outlinks |-> 0, backlinks |-> 0]

RECURSIVE linkEdgesKeepSelf(_, _, _, _)
linkEdgesKeepSelf(links, notePath, noteSet, sourceDir) ==
    IF links = <<>> THEN <<>>
    ELSE LET link == Head(links)
             resolvedTarget == resolveLink(link.target, noteSet, sourceDir)
             rest == linkEdgesKeepSelf(Tail(links), notePath, noteSet, sourceDir)
         IN  IF resolvedTarget # {}
             THEN <<[from  |-> notePath,
                     to    |-> CHOOSE t \in resolvedTarget : TRUE,
                     label |-> IF truthy(link.alias) THEN link.alias ELSE {}]>> \o rest
             ELSE rest

\* the for (const link of links) loop of one note
RECURSIVE linkEdges(_, _, _, _)
linkEdges(links, notePath, noteSet, sourceDir) ==
    IF links = <<>> THEN <<>>
    ELSE LET link == Head(links)
             resolvedTarget == resolveLink(link.target, noteSet, sourceDir)
             rest == linkEdges(Tail(links), notePath, noteSet, sourceDir)
         IN  IF resolvedTarget # {} /\ resolvedTarget # {notePath}
             THEN <<[from  |-> notePath,
                     to    |-> CHOOSE t \in resolvedTarget : TRUE,
                     label |-> IF truthy(link.alias) THEN link.alias ELSE {}]>> \o rest
             ELSE rest

\* the try block of one note's unit, given the content readFile returned
noteEdges(notePath, content, noteSet) ==
    linkEdges(extractLinks(content), notePath, noteSet, sourceDirOf(notePath))

unitResultIgnoringFailure(notePath, readOk, content, noteSet) ==
    noteEdges(notePath, content, noteSet)

\* what one note's unit returns: try { ... } catch { return edges: [] }
unitResult(notePath, readOk, content, noteSet) ==
    IF readOk THEN noteEdges(notePath, content, noteSet) ELSE <<>>

storeInCompletionOrder(res, i, r) ==
    LET pending == {j \in DOMAIN res : res[j] = {}}
        slot == CHOOSE j \in pending : \A k \in pending : j <= k
    IN  [res EXCEPT ![slot] = {r}]

\* Promise.all: the value of the i-th promise is the i-th result
storeResult(res, i, r) == [res EXCEPT ![i] = {r}]

RECURSIVE flatten(_, _)
flatten(res, i) ==
    IF i > Len(res) THEN <<>>
    ELSE (CHOOSE r \in res[i] : TRUE) \o flatten(res, i + 1)

countEdgeSourceOnly(nm, edge) ==
    LET nm1 == IF edge.from \in DOMAIN nm
               THEN [nm EXCEPT ![edge.from].outlinks = @ + 1, ![edge.from].links = @ + 1]
               ELSE nm
    IN  IF edge.to \in DOMAIN nm1
        THEN [nm1 EXCEPT ![edge.to].backlinks = @ + 1]
        ELSE nm1

\* the body of the aggregation loop for one edge
countEdge(nm, edge) ==
    LET nm1 == IF edge.from \in DOMAIN nm
               THEN [nm EXCEPT ![edge.from].outlinks = @ + 1, ![edge.from].links = @ + 1]
               ELSE nm
    IN  IF edge.to \in DOMAIN nm1
        THEN [nm1 EXCEPT ![edge.to].backlinks = @ + 1, ![edge.to].links = @ + 1]
        ELSE nm1

RECURSIVE aggregate(_, _)
aggregate(nm, edges) ==
    IF edges = <<>> THEN nm ELSE aggregate(countEdge(nm, Head(edges)), Tail(edges))

\* { nodes: Array.from(nodeMap.values()), edges }
makeGraph(noteSeq, nm, edges) ==
    [nodes |-> [i \in 1..Len(noteSeq) |-> nm[noteSeq[i]]], edges |-> edges]

noteIds(noteSeq) == {noteSeq[i] : i \in 1..Len(noteSeq)}

-----------------------------------------------------------------------------
(* Vaults *)

X_MD  == <<"x">> \o MD
AX_MD == <<"a", "/", "x">> \o MD
AY_MD == <<"a", "/", "Y">> \o MD
BX_MD == <<"b", "/", "x">> \o MD
N_TXT == <<"n", ".", "t", "x", "t">>

NoteUniverse == {X_MD, AX_MD, AY_MD, BX_MD}

NoAlias == {}
AL == {<<"a", "l">>}

Wiki(t, a) == [kind |-> "wiki", target |-> t, alias |-> a]
Md(t, a)   == [kind |-> "md", target |-> t, alias |-> a]

\* [al](./a/x.md) then [[y]]
DocA == <<Md(<<".", "/">> \o AX_MD, AL), Wiki(<<"y">>, NoAlias)>>
\* [[g]] then [[A/X|al]] then [t](a/x.txt) then [[x]] then [[ x | ]]
DocB == <<Wiki(<<"g">>, NoAlias), Wiki(<<"A", "/", "X">>, AL),
          Md(<<"a", "/", "x", ".", "t", "x", "t">>, {<<"t">>}),
          Wiki(<<"x">>, NoAlias), Wiki(<<" ", "x", " ">>, {<<" ">>})>>
DocEmpty == <<>>

Documents == {DocEmpty, DocA, DocB}

Injective(s) == \A i, j \in 1..Len(s) : s[i] = s[j] => i = j

\* the files of one directory are listed together
Contiguous(s) ==
    \A i, j, k \in 1..Len(s) :
        (i < j /\ j < k /\ sourceDirOf(s[i]) # <<>> /\ sourceDirOf(s[i]) = sourceDirOf(s[k]))
            => sourceDirOf(s[j]) = sourceDirOf(s[i])

Enumerations(n) ==
    {s \in UNION {[1..k -> NoteUniverse] : k \in 0..n} : Injective(s) /\ Contiguous(s)}

File(name) == [name |-> name, isDirectory |-> FALSE, entries |-> <<>>]
Dir(name, entries) == [name |-> name, isDirectory |-> TRUE, entries |-> entries]

\* the directory tree whose walk lists the paths of s in this order
RECURSIVE TreeOf(_)
TreeOf(s) ==
    IF s = <<>> THEN <<>>
    ELSE LET path == s[Len(s)]
             before == TreeOf(SubSeq(s, 1, Len(s) - 1))
             dir == sourceDirOf(path)
         IN  IF dir = <<>> THEN Append(before, File(path))
             ELSE IF before # <<>> /\ before[Len(before)].isDirectory
                     /\ before[Len(before)].name = dir
                  THEN [before EXCEPT ![Len(before)].entries = Append(@, File(basename(path)))]
                  ELSE Append(before, Dir(dir, <<File(N_TXT), File(basename(path))>>))

Filters == {{}, {<<"b">>}}

VaultInit(maxNotes, documents, filters) ==
    \E s \in Enumerations(maxNotes) :
        /\ root = TreeOf(s)
        /\ contents \in [noteIds(s) -> documents]
        /\ pathFilter \in filters

Idle ==
    /\ pc = "idle"
    /\ call = [op |-> "none"]
    /\ notes = <<>>
    /\ nodeMap = <<>>
    /\ results = <<>>
    /\ failed = {}
    /\ overtaken = FALSE
    /\ graph = [nodes |-> <<>>, edges |-> <<>>]
    /\ unresolvedLinks = <<>>
    /\ notes2 = <<>>
    /\ scan = 0
    /\ seen = {}
    /\ edits = 0
    /\ ret = <<>>

vaultVars == <<root, contents, pathFilter>>
statsVars == <<unresolvedLinks, notes2, scan, seen, edits>>

-----------------------------------------------------------------------------
(* getGraph *)

\* lines 157-176: enumerate, create the nodes, start one unit per note
StartGraph(operation) ==
    /\ pc = "idle"
    /\ pc' = "reading"
    /\ call' = operation
    /\ notes' = getAllNotes(root, pathFilter)
    /\ nodeMap' = [p \in noteIds(notes') |-> newNode(p)]
    /\ results' = [i \in 1..Len(notes') |-> {}]
    /\ failed' = {}
    /\ overtaken' = FALSE
    /\ UNCHANGED <<graph, ret>>

\* readFile of note i resolves: the rest of its unit runs
ReadOk(i) ==
    /\ pc = "reading"
    /\ i \in DOMAIN results
    /\ i \notin failed
    /\ results[i] = {}
    /\ notes[i] \in DOMAIN contents
    /\ results' = storeResult(results, i,
                              unitResult(notes[i], TRUE, contents[notes[i]], notes))
    /\ overtaken' = (overtaken \/ \E j \in 1..(i - 1) : results[j] = {})
    /\ UNCHANGED <<pc, call, notes, nodeMap, failed, graph, ret>>

\* readFile of note i rejects: the catch block runs
ReadFail(i) ==
    /\ pc = "reading"
    /\ i \in DOMAIN results
    /\ i \notin failed
    /\ results[i] = {}
    /\ results' = storeResult(results, i,
                              unitResult(notes[i], FALSE,
                                         IF notes[i] \in DOMAIN contents
                                         THEN contents[notes[i]] ELSE <<>>, notes))
    /\ failed' = failed \cup {i}
    /\ overtaken' = (overtaken \/ \E j \in 1..(i - 1) : results[j] = {})
    /\ UNCHANGED <<pc, call, notes, nodeMap, graph, ret>>

allSettled == \A i \in DOMAIN results : results[i] # {}

\* lines 207-233: Promise.all resolves, the edges are aggregated, the graph is returned
Join ==
    /\ pc = "reading"
    /\ allSettled
    /\ LET edges == flatten(results, 1)
       IN  /\ nodeMap' = aggregate(nodeMap, edges)
           /\ graph' = makeGraph(notes, nodeMap', edges)
    /\ pc' = "built"
    /\ UNCHANGED <<call, notes, results, failed, overtaken>>

\* getGraph called directly: the caller receives the graph
GetGraph == StartGraph([op |-> "getGraph"]) /\ UNCHANGED <<vaultVars, statsVars>>

UnitSucceeds == \E i \in DOMAIN results : ReadOk(i) /\ UNCHANGED <<vaultVars, statsVars>>

UnitFails == \E i \in DOMAIN results : ReadFail(i) /\ UNCHANGED <<vaultVars, statsVars>>

ReturnGraph ==
    /\ call.op = "getGraph"
    /\ Join
    /\ ret' = graph'
    /\ UNCHANGED <<vaultVars, statsVars>>

Init == VaultInit(MaxNotes, Documents, Filters) /\ Idle

Next == GetGraph \/ UnitSucceeds \/ UnitFails \/ ReturnGraph

Spec == Init /\ [][Next]_vars

-----------------------------------------------------------------------------
(* Properties of the graph getGraph returns *)

Returned == pc = "built" /\ call.op = "getGraph"

EdgeIdx(g) == 1..Len(g.edges)
NodeIds(g) == {g.nodes[k].id : k \in 1..Len(g.nodes)}
EdgesFrom(g, id) == {i \in EdgeIdx(g) : g.edges[i].from = id}
EdgesTo(g, id) == {i \in EdgeIdx(g) : g.edges[i].to = id}

RECURSIVE SumOutlinks(_)
SumOutlinks(nodes) ==
    IF nodes = <<>> THEN 0 ELSE Head(nodes).outlinks + SumOutlinks(Tail(nodes))

RECURSIVE SumBacklinks(_)
SumBacklinks(nodes) ==
    IF nodes = <<>> THEN 0 ELSE Head(nodes).backlinks + SumBacklinks(Tail(nodes))

\* the links of note i, as extracted from its content
LinksOf(i) == extractLinks(contents[notes[i]])
\* those of the links that resolve to r (to nothing: r = {})
LinksResolvingTo(links, i, r) ==
    {k \in 1..Len(links) : resolveLink(links[k].target, notes, sourceDirOf(notes[i])) = r}
SelfLinks(i) == LinksResolvingTo(LinksOf(i), i, {notes[i]})
DanglingLinks(i) == LinksResolvingTo(LinksOf(i), i, {})
ReadNotes == {i \in 1..Len(notes) : i \notin failed}

\* C3: in the returned graph every node's outlinks is the number of edges
\* leaving it, its backlinks the number of edges entering it, its links their
\* sum; the number of edges is the sum of the outlinks and the sum of the
\* backlinks.
C3_CountersMatchEdges ==
    Returned =>
        /\ \A k \in 1..Len(ret.nodes) :
              LET n == ret.nodes[k]
              IN  /\ n.outlinks = Cardinality(EdgesFrom(ret, n.id))
                  /\ n.backlinks = Cardinality(EdgesTo(ret, n.id))
                  /\ n.links = n.outlinks + n.backlinks
        /\ Len(ret.edges) = SumOutlinks(ret.nodes)
        /\ Len(ret.edges) = SumBacklinks(ret.nodes)

\* a returned graph with two edges between the same pair of notes and a note
\* whose read failed
C3_Witness ==
    /\ Returned
    /\ failed # {}
    /\ \E i, j \in EdgeIdx(ret) :
          /\ i < j
          /\ ret.edges[i].from = ret.edges[j].from
          /\ ret.edges[i].to = ret.edges[j].to
    /\ \E k \in 1..Len(ret.nodes) : ret.nodes[k].outlinks > 0 /\ ret.nodes[k].backlinks > 0

\* C4: both endpoints of every edge of the returned graph are nodes of it, and
\* a note with a link that resolves to no enumerated note has no edge for it.
C4_EndpointsAreNodes ==
    Returned =>
        /\ \A i \in EdgeIdx(ret) :
              ret.edges[i].from \in NodeIds(ret) /\ ret.edges[i].to \in NodeIds(ret)
        /\ \A i \in ReadNotes :
              LET links == LinksOf(i)
              IN  Cardinality(EdgesFrom(ret, notes[i]))
                      <= Len(links) - Cardinality(LinksResolvingTo(links, i, {}))

\* a returned graph with edges, built from a note that was read and has a link
\* resolving to nothing, and with a note whose read failed
C4_Witness ==
    /\ Returned
    /\ ret.edges # <<>>
    /\ failed # {}
    /\ \E i \in ReadNotes : DanglingLinks(i) # {} /\ EdgesFrom(ret, notes[i]) # {}

\* C5: the returned graph has no edge from a note to itself; a note's links
\* that resolve to the note itself add no edge.
C5_NoSelfEdge ==
    Returned =>
        /\ \A i \in EdgeIdx(ret) : ret.edges[i].from # ret.edges[i].to
        /\ \A i \in ReadNotes :
              LET links == LinksOf(i)
              IN  Cardinality(EdgesFrom(ret, notes[i]))
                      = Len(links) - Cardinality(LinksResolvingTo(links, i, {}))
                                   - Cardinality(LinksResolvingTo(links, i, {notes[i]}))

\* a returned graph built from a note with a link that resolves to the note
\* itself without naming its exact path, and another link that became an edge
C5_Witness ==
    /\ Returned
    /\ \E i \in ReadNotes :
          /\ LET links == LinksOf(i)
             IN  \E k \in LinksResolvingTo(links, i, {notes[i]}) : links[k].target # notes[i]
          /\ EdgesFrom(ret, notes[i]) # {}

\* the edges of note i when its read succeeds
ExpectedEdges(i) == noteEdges(notes[i], contents[notes[i]], notes)

RECURSIVE ConcatExpected(_)
ConcatExpected(i) ==
    IF i > Len(notes) THEN <<>>
    ELSE (IF i \in failed THEN <<>> ELSE ExpectedEdges(i)) \o ConcatExpected(i + 1)

EdgesOfNote(g, id) == SelectSeq(g.edges, LAMBDA e : e.from = id)

\* C8: a unit whose read failed settles with an empty edge list, so that the
\* join completes; whatever reads failed, the returned graph has a node for
\* every enumerated note, no edge from a note whose read failed, and from
\* every other note the edges it has when no read fails.
C8_FailedReadIsolated ==
    /\ \A i \in failed : results[i] = {<<>>}
    /\ Returned =>
          /\ Len(ret.nodes) = Len(notes)
          /\ \A i \in 1..Len(notes) : ret.nodes[i].id = notes[i]
          /\ \A i \in failed : EdgesFrom(ret, notes[i]) = {}
          /\ \A i \in ReadNotes : EdgesOfNote(ret, notes[i]) = ExpectedEdges(i)

\* a returned graph where one read failed and another did not, the note whose
\* read failed has links that resolve, and an edge points to it
C8_Witness ==
    /\ Returned
    /\ \E i \in failed :
          /\ ExpectedEdges(i) # <<>>
          /\ EdgesTo(ret, notes[i]) # {}
          /\ ret.nodes[i].backlinks > 0
    /\ \E i \in ReadNotes : ExpectedEdges(i) # <<>>

AllCountersZero ==
    \A p \in DOMAIN nodeMap :
        nodeMap[p].links = 0 /\ nodeMap[p].outlinks = 0 /\ nodeMap[p].backlinks = 0

\* C9: the edges of the returned graph are the notes' edge lists, concatenated
\* in enumeration order, whatever order the units completed in; no counter
\* changes before every unit has completed.
C9_EdgeOrderIsEnumerationOrder ==
    /\ pc = "reading" => AllCountersZero
    /\ Returned =>
          LET expected == ConcatExpected(1)
              counted == aggregate([p \in noteIds(notes) |-> newNode(p)], expected)
          IN  /\ ret.edges = expected
              /\ \A k \in 1..Len(ret.nodes) : ret.nodes[k] = counted[notes[k]]

\* a returned graph with edges from two notes, where a unit completed before
\* the unit of an earlier note
C9_Witness ==
    /\ Returned
    /\ overtaken
    /\ \E i, j \in EdgeIdx(ret) : ret.edges[i].from # ret.edges[j].from

-----------------------------------------------------------------------------
(* resolveLink on its own: every enumeration of a vault as the known set,  *)
(* in its order, with a target and a source directory.                     *)

Targets ==
    {<<"x">>, X_MD, <<"X">>, <<"a", "/", "x">>, <<"A", "/", "X">>, <<"b", "/", "X">>,
     <<"y">>, <<"a", "/", "y">>, AY_MD, <<"g">>}

SourceDirs == {<<>>, <<"a">>, <<"b">>}

ResolveLink(target, sourceDir) ==
    /\ pc = "idle"
    /\ pc' = "resolved"
    /\ call' = [op |-> "resolveLink", target |-> target, sourceDir |-> sourceDir]
    /\ notes' = getAllNotes(root, pathFilter)
    /\ ret' = resolveLink(target, notes', sourceDir)
    /\ UNCHANGED <<vaultVars, statsVars, nodeMap, results, failed, overtaken, graph>>

InitResolve == VaultInit(MaxNotes, {DocEmpty}, Filters) /\ Idle

NextResolve == \E target \in Targets, sourceDir \in SourceDirs : ResolveLink(target, sourceDir)

SpecResolve == InitResolve /\ [][NextResolve]_vars

Resolved == pc = "resolved"

NormalizedTarget == normalize(call.target)
WithDir == call.sourceDir \o SLASH \o NormalizedTarget
Known == noteIds(notes)
\* the known identifiers equal to the normalized target, case-insensitively
WholeMatches ==
    {i \in 1..Len(notes) : toLowerCase(notes[i]) = toLowerCase(NormalizedTarget)}
First(S) == CHOOSE i \in S : \A j \in S : i <= j

\* C1: when neither the normalized target nor sourceDir/target is known and
\* some known identifier equals the normalized target case-insensitively, the
\* result is the first such identifier in iteration order; an identifier that
\* matches by its last segment only is returned only when there is none.
C1_FullMatchBeforeFilename ==
    (Resolved /\ NormalizedTarget \notin Known /\ WithDir \notin Known) =>
        /\ WholeMatches # {} => ret = {notes[First(WholeMatches)]}
        /\ \A r \in ret :
              toLowerCase(r) # toLowerCase(NormalizedTarget) => WholeMatches = {}

\* C2: with a non-empty source directory, when the normalized target is not
\* known and sourceDir/target is, the result is sourceDir/target.
C2_SameDirectoryPreferred ==
    (Resolved /\ call.sourceDir # <<>> /\ NormalizedTarget \notin Known /\ WithDir \in Known)
        => ret = {WithDir}

\* the same-directory note is returned although a note with the same file
\* name comes first in the known set
C2_Witness ==
    /\ Resolved
    /\ call.sourceDir # <<>>
    /\ NormalizedTarget \notin Known
    /\ WithDir \in Known
    /\ ret = {WithDir}
    /\ notes[1] # WithDir
    /\ toLowerCase(basename(notes[1])) = toLowerCase(basename(NormalizedTarget))

-----------------------------------------------------------------------------
(* Queries on a freshly built graph.  The vault does not change here, so   *)
(* the graph getGraph returns depends only on which reads failed (C9), and *)
(* each query is one step: the whole of getGraph, then the query's own     *)
(* code.                                                                   *)

RECURSIVE allResults(_, _, _, _)
allResults(noteSeq, i, files, failedReads) ==
    IF i > Len(noteSeq) THEN <<>>
    ELSE <<{unitResult(noteSeq[i], i \notin failedReads, files[noteSeq[i]], noteSeq)}>>
         \o allResults(noteSeq, i + 1, files, failedReads)

\* lines 158-233 of getGraph, given what getAllNotes returned
buildFrom(noteSeq, files, failedReads) ==
    LET edges == flatten(allResults(noteSeq, 1, files, failedReads), 1)
    IN  makeGraph(noteSeq, aggregate([p \in noteIds(noteSeq) |-> newNode(p)], edges), edges)

\* the graph getGraph returns when the reads of the notes in failedReads fail
buildGraph(listing, files, filter, failedReads) ==
    buildFrom(getAllNotes(listing, filter), files, failedReads)

backlinkMatchExact(edge, normalizedPath) == edge.to = normalizedPath

\* edge.to === normalizedPath || edge.to.endsWith(`/${normalizedPath}`)
backlinkMatch(edge, normalizedPath) ==
    edge.to = normalizedPath \/ endsWith(edge.to, SLASH \o normalizedPath)

toBacklink(edge) ==
    [from |-> edge.from, context |-> IF truthy(edge.label) THEN edge.label ELSE {}]

RECURSIVE backlinksOf(_, _)
backlinksOf(edges, normalizedPath) ==
    IF edges = <<>> THEN <<>>
    ELSE (IF backlinkMatch(Head(edges), normalizedPath)
          THEN <<toBacklink(Head(edges))>> ELSE <<>>)
         \o backlinksOf(Tail(edges), normalizedPath)

\* Array.prototype.find: the first of the nodes passing the test, if any
findFirst(nodes, passing) ==
    IF passing = {} THEN {}
    ELSE {nodes[CHOOSE k \in passing : \A j \in passing : k <= j]}

findCenter(nodes, normalizedPath) ==
    LET exact == {k \in 1..Len(nodes) : nodes[k].id = normalizedPath}
        loose == {k \in 1..Len(nodes) :
                     \/ endsWith(nodes[k].id, normalizedPath)
                     \/ toLowerCase(nodes[k].id) = toLowerCase(normalizedPath)}
    IN  IF exact # {} THEN findFirst(nodes, exact) ELSE findFirst(nodes, loose)

visitEdgeOutgoingOnly(st, edge, id, currentDepth) ==
    IF edge.from = id /\ edge.to \notin st.included
    THEN [included |-> st.included \cup {edge.to},
          queue |-> Append(st.queue, [id |-> edge.to, currentDepth |-> currentDepth + 1])]
    ELSE st

\* the two tests the traversal makes on one edge
visitEdge(st, edge, id, currentDepth) ==
    LET st1 == IF edge.from = id /\ edge.to \notin st.included
               THEN [included |-> st.included \cup {edge.to},
                     queue |-> Append(st.queue,
                                      [id |-> edge.to, currentDepth |-> currentDepth + 1])]
               ELSE st
    IN  IF edge.to = id /\ edge.from \notin st1.included
        THEN [included |-> st1.included \cup {edge.from},
              queue |-> Append(st1.queue,
                               [id |-> edge.from, currentDepth |-> currentDepth + 1])]
        ELSE st1

RECURSIVE visitEdges(_, _, _, _)
visitEdges(st, edges, id, currentDepth) ==
    IF edges = <<>> THEN st
    ELSE visitEdges(visitEdge(st, Head(edges), id, currentDepth), Tail(edges), id, currentDepth)

\* while (queue.length > 0)
RECURSIVE bfs(_, _, _)
bfs(st, edges, depth) ==
    IF st.queue = <<>> THEN st.included
    ELSE LET current == Head(st.queue)
             rest == [st EXCEPT !.queue = Tail(st.queue)]
         IN  IF current.currentDepth >= depth THEN bfs(rest, edges, depth)
             ELSE bfs(visitEdges(rest, edges, current.id, current.currentDepth), edges, depth)

localGraph(fullGraph, path, depth) ==
    LET centerNode == findCenter(fullGraph.nodes, normalize(path))
    IN  IF centerNode = {} THEN [nodes |-> <<>>, edges |-> <<>>]
        ELSE LET center == CHOOSE n \in centerNode : TRUE
                 includedNodes ==
                     bfs([included |-> {center.id},
                          queue |-> <<[id |-> center.id, currentDepth |-> 0]>>],
                         fullGraph.edges, depth)
             IN  [nodes |-> SelectSeq(fullGraph.nodes, LAMBDA n : n.id \in includedNodes),
                  edges |-> SelectSeq(fullGraph.edges,
                                      LAMBDA e : e.from \in includedNodes /\ e.to \in includedNodes)]

QueryPaths == {<<"x">>, <<"Y">>, AX_MD}

Depths == 0..MaxDepth

\* the part of a query that is getGraph
QueryBuild(failedReads) ==
    /\ pc = "idle"
    /\ pc' = "done"
    /\ notes' = getAllNotes(root, pathFilter)
    /\ failedReads \in SUBSET (1..Len(notes'))
    /\ failed' = failedReads
    /\ graph' = buildGraph(root, contents, pathFilter, failedReads)
    /\ UNCHANGED <<vaultVars, statsVars, nodeMap, results, overtaken>>

GetBacklinks(path) ==
    \E failedReads \in SUBSET (1..MaxNotes) :
        /\ QueryBuild(failedReads)
        /\ call' = [op |-> "getBacklinks", path |-> path]
        /\ ret' = [path |-> normalize(path),
                   backlinks |-> backlinksOf(graph'.edges, normalize(path))]

GetLocalGraph(path, depth) ==
    \E failedReads \in SUBSET (1..MaxNotes) :
        /\ QueryBuild(failedReads)
        /\ call' = [op |-> "getLocalGraph", path |-> path, depth |-> depth]
        /\ ret' = localGraph(graph', path, depth)

\* a note whose read fails contributes what a note without links does, so
\* the notes of these vaults all have links
InitQuery == VaultInit(MaxNotes, Documents \ {DocEmpty}, {{}}) /\ Idle

NextQuery ==
    \/ \E path \in QueryPaths : GetBacklinks(path)
    \/ \E path \in QueryPaths, depth \in Depths : GetLocalGraph(path, depth)

SpecQuery == InitQuery /\ [][NextQuery]_vars

-----------------------------------------------------------------------------
(* Properties of the queries *)

BacklinksDone == pc = "done" /\ call.op = "getBacklinks"
LocalDone == pc = "done" /\ call.op = "getLocalGraph"

\* target is the path itself, or something, a slash, and the path
TargetsPath(to, path) ==
    \/ to = path
    \/ \E k \in 0..Len(to) : to = SubSeq(to, 1, k) \o SLASH \o path

MatchingEdges(g, path) == {i \in EdgeIdx(g) : TargetsPath(g.edges[i].to, path)}

\* the k-th smallest element of a set of numbers
RECURSIVE Nth(_, _)
Nth(S, k) == IF k = 1 THEN First(S) ELSE Nth(S \ {First(S)}, k - 1)

Neighbours(g, S) ==
    {g.edges[i].to : i \in {j \in EdgeIdx(g) : g.edges[j].from \in S}}
    \cup {g.edges[i].from : i \in {j \in EdgeIdx(g) : g.edges[j].to \in S}}

\* the nodes at distance at most k from a node of S, edges taken both ways
RECURSIVE Ball(_, _, _)
Ball(g, S, k) == IF k = 0 THEN S ELSE Ball(g, S \cup Neighbours(g, S), k - 1)

Center == findCenter(graph.nodes, normalize(call.path))

\* C6: with a center found, getLocalGraph returns the nodes at distance at
\* most depth from the center, edges taken in either direction, and the edges
\* of the full graph between two such nodes; with depth 0, the center and no
\* edge.
C6_LocalGraphIsInducedBall ==
    (LocalDone /\ Center # {}) =>
        LET center == CHOOSE n \in Center : TRUE
            ball == Ball(graph, {center.id}, call.depth)
        IN  /\ ret.nodes = SelectSeq(graph.nodes, LAMBDA n : n.id \in ball)
            /\ ret.edges = SelectSeq(graph.edges, LAMBDA e : e.from \in ball /\ e.to \in ball)
            /\ call.depth = 0 => (ret.nodes = <<center>> /\ ret.edges = <<>>)

\* depth 1 on a chain A -> B -> C, from A or from C: two nodes and one edge
C6_Witness ==
    /\ LocalDone
    /\ Center # {}
    /\ call.depth = 1
    /\ Len(graph.nodes) = 3
    /\ Len(ret.nodes) = 2
    /\ Len(ret.edges) = 1
    /\ \E i \in EdgeIdx(graph) :
          LET e == graph.edges[i]
          IN  /\ e # ret.edges[1]
              /\ e.from # ret.edges[1].from
              /\ e.from \in {ret.edges[1].from, ret.edges[1].to}
                 \/ e.to \in {ret.edges[1].from, ret.edges[1].to}

-----------------------------------------------------------------------------
(* getGraphStats, in a vault that other programs change while it runs *)

DefaultHubCount == 10

HubCounts == {1, DefaultHubCount}

\* .filter(node => node.links === 0).map(node => node.id)
RECURSIVE orphansOf(_)
orphansOf(nodes) ==
    IF nodes = <<>> THEN <<>>
    ELSE (IF Head(nodes).links = 0 THEN <<Head(nodes).id>> ELSE <<>>) \o orphansOf(Tail(nodes))

\* Array.prototype.sort with (a, b) => b.links - a.links, which is stable
RECURSIVE sortByLinks(_)
sortByLinks(nodes) ==
    IF nodes = <<>> THEN <<>>
    ELSE LET sorted == sortByLinks(SubSeq(nodes, 1, Len(nodes) - 1))
             n == nodes[Len(nodes)]
             before == {k \in 1..Len(sorted) : sorted[k].links >= n.links}
             at == IF before = {} THEN 0 ELSE CHOOSE k \in before : \A j \in before : k >= j
         IN  SubSeq(sorted, 1, at) \o <<n>> \o SubSeq(sorted, at + 1, Len(sorted))

hubsOf(nodes, hubCount) ==
    LET sorted == sortByLinks(nodes)
        top == SubSeq(sorted, 1, IF hubCount < Len(sorted) THEN hubCount ELSE Len(sorted))
    IN  [k \in 1..Len(top) |-> [path |-> top[k].id, connections |-> top[k].links]]

\* link.target.replace(/\.md$/, '')
stripMd(target) ==
    IF endsWith(target, MD) THEN SubSeq(target, 1, Len(target) - Len(MD)) ELSE target

\* the re-scan's loop over the links of one note
RECURSIVE collectUnresolved(_, _, _, _)
collectUnresolved(unresolved, links, noteSet, sourceDir) ==
    IF links = <<>> THEN unresolved
    ELSE LET link == Head(links)
             resolved == resolveLink(link.target, noteSet, sourceDir)
             linkName == stripMd(link.target)
             next == IF resolved = {} /\ ~ inSet(linkName, unresolved)
                     THEN Append(unresolved, linkName)
                     ELSE unresolved
         IN  collectUnresolved(next, Tail(links), noteSet, sourceDir)

nodeIdSeq(g) == [k \in 1..Len(g.nodes) |-> g.nodes[k].id]

makeStats(g, hubCount, unresolved) ==
    [totalNodes |-> Len(g.nodes),
     totalEdges |-> Len(g.edges),
     orphans |-> orphansOf(g.nodes),
     hubs |-> hubsOf(g.nodes, hubCount),
     unresolvedLinks |-> unresolved]

Vault == [root |-> root, contents |-> contents]

GetGraphStats(hubCount) ==
    /\ StartGraph([op |-> "getGraphStats", hubCount |-> hubCount])
    /\ seen' = {Vault}
    /\ UNCHANGED <<vaultVars, unresolvedLinks, notes2, scan, edits>>

\* a read fails when the note has been removed since it was enumerated
UnitFailsMissing ==
    \E i \in DOMAIN results :
        /\ notes[i] \notin DOMAIN contents
        /\ ReadFail(i)
        /\ UNCHANGED <<vaultVars, statsVars>>

\* line 240: getGraph returns to getGraphStats
StatsGraphBuilt ==
    /\ call.op = "getGraphStats"
    /\ Join
    /\ UNCHANGED <<vaultVars, statsVars, ret>>

\* lines 241-258: orphans and hubs are taken from the graph, the vault is
\* enumerated again
StartRescan ==
    /\ pc = "built"
    /\ call.op = "getGraphStats"
    /\ pc' = "rescan"
    /\ notes2' = getAllNotes(root, pathFilter)
    /\ scan' = 0
    /\ unresolvedLinks' = <<>>
    /\ UNCHANGED <<vaultVars, call, notes, nodeMap, results, failed, overtaken, graph,
                   seen, edits, ret>>

\* lines 259-279: one pass of the re-scan loop, with its readFile
RescanNote ==
    /\ pc = "rescan"
    /\ scan < Len(notes2)
    /\ scan' = scan + 1
    /\ LET notePath == notes2[scan + 1]
       IN  unresolvedLinks' =
               IF notePath \in DOMAIN contents
               THEN collectUnresolved(unresolvedLinks, extractLinks(contents[notePath]),
                                      nodeIdSeq(graph), sourceDirOf(notePath))
               ELSE unresolvedLinks
    /\ UNCHANGED <<vaultVars, pc, call, notes, nodeMap, results, failed, overtaken, graph,
                   notes2, seen, edits, ret>>

\* lines 281-287
ReturnStats ==
    /\ pc = "rescan"
    /\ scan = Len(notes2)
    /\ pc' = "done"
    /\ ret' = makeStats(graph, call.hubCount, unresolvedLinks)
    /\ UNCHANGED <<vaultVars, call, notes, nodeMap, results, failed, overtaken, graph,
                   statsVars>>

(* The other programs *)

Running == pc \in {"reading", "built", "rescan"}

removeFile(listing, path) ==
    LET dir == sourceDirOf(path)
        keep(entries, name) == SelectSeq(entries, LAMBDA e : e.isDirectory \/ e.name # name)
    IN  IF dir = <<>> THEN keep(listing, path)
        ELSE [k \in 1..Len(listing) |->
                 IF listing[k].isDirectory /\ listing[k].name = dir
                 THEN [listing[k] EXCEPT !.entries = keep(@, basename(path))]
                 ELSE listing[k]]

addFile(listing, path) ==
    LET dir == sourceDirOf(path)
    IN  IF dir = <<>> THEN Append(listing, File(path))
        ELSE IF \E k \in 1..Len(listing) : listing[k].isDirectory /\ listing[k].name = dir
             THEN [k \in 1..Len(listing) |->
                      IF listing[k].isDirectory /\ listing[k].name = dir
                      THEN [listing[k] EXCEPT !.entries = Append(@, File(basename(path)))]
                      ELSE listing[k]]
             ELSE Append(listing, Dir(dir, <<File(basename(path))>>))

Edited ==
    /\ Running
    /\ edits < MaxEdits
    /\ edits' = edits + 1
    /\ seen' = seen \cup {[root |-> root', contents |-> contents']}
    /\ UNCHANGED <<pathFilter, pc, call, notes, nodeMap, results, failed, overtaken, graph,
                   unresolvedLinks, notes2, scan, ret>>

RewriteNote ==
    \E path \in DOMAIN contents, doc \in Documents :
        /\ doc # contents[path]
        /\ contents' = [contents EXCEPT ![path] = doc]
        /\ root' = root
        /\ Edited

RemoveNote ==
    \E path \in DOMAIN contents :
        /\ contents' = [p \in DOMAIN contents \ {path} |-> contents[p]]
        /\ root' = removeFile(root, path)
        /\ Edited

AddNote ==
    \E path \in NoteUniverse \ DOMAIN contents, doc \in Documents :
        /\ contents' = [p \in DOMAIN contents \cup {path} |->
                           IF p = path THEN doc ELSE contents[p]]
        /\ root' = addFile(root, path)
        /\ Edited

InitStats == VaultInit(MaxStatsNotes, Documents, {{}}) /\ Idle

NextStats ==
    \/ \E hubCount \in HubCounts : GetGraphStats(hubCount)
    \/ UnitSucceeds
    \/ UnitFailsMissing
    \/ StatsGraphBuilt
    \/ StartRescan
    \/ RescanNote
    \/ ReturnStats
    \/ RewriteNote
    \/ RemoveNote
    \/ AddNote

SpecStats == InitStats /\ [][NextStats]_vars

\* the statistics of one state of the vault
RECURSIVE rescanAll(_, _, _, _)
rescanAll(unresolved, noteSeq, k, files) ==
    IF k > Len(noteSeq) THEN unresolved
    ELSE rescanAll(collectUnresolved(unresolved, extractLinks(files[noteSeq[k]]), noteSeq,
                                     sourceDirOf(noteSeq[k])),
                   noteSeq, k + 1, files)

StatsOf(v, hubCount) ==
    LET noteSeq == getAllNotes(v.root, pathFilter)
    IN  makeStats(buildFrom(noteSeq, v.contents, {}), hubCount,
                  rescanAll(<<>>, noteSeq, 1, v.contents))

StatsDone == pc = "done" /\ call.op = "getGraphStats"

\* C10: the result of getGraphStats is the statistics of one state the vault
\* was in while the call ran: node and edge totals, orphans, hubs and
\* unresolved links all computed from that one state.
C10_StatsOfOneSnapshot ==
    StatsDone => \E v \in seen : ret = StatsOf(v, call.hubCount)

\* without a change to the vault during the call the result is the statistics
\* of the vault
StatsOfQuietRun ==
    (StatsDone /\ edits = 0) => ret = StatsOf(Vault, call.hubCount)

====
